---- MODULE Spec2Model ----
(***************************************************************************)
(* State flow graph (SFG) of the asynchronous engine:                      *)
(* taichi/program/state_flow_graph.cpp.                                    *)
(*                                                                         *)
(* Nodes are heap objects.  A Node* is modelled by its address; the heap   *)
(* maps every address to the Node stored there.  nodes_ owns the live      *)
(* nodes; an address that left nodes_ is freed memory.  A pointer to freed *)
(* memory that is still stored somewhere is dangling: dereferencing it is  *)
(* undefined behaviour, modelled as the choice between a crash and going   *)
(* on with the stale Node still found at that address; make_unique<Node>() *)
(* may also hand out a freed address again.                                *)
(***************************************************************************)
EXTENDS Integers, Sequences, FiniteSets, TLC

VARIABLES
  heap,                     \* address -> Node (rec, meta, launch_id, node_id, input_edges, output_edges)
  nodes,                    \* nodes_: the sequence of live node addresses, nodes_[0] first
  latest_state_owner,       \* latest_state_owner_: AsyncState -> Node*
  latest_state_readers,     \* latest_state_readers_: AsyncState -> set of Node*
  task_name_to_launch_ids,  \* task_name_to_launch_ids_: name -> next launch id
  status,                   \* "ok", "aborted" (a TI_ASSERT failed) or "crashed" (dangling dereference)
  ret                       \* the last call: its name and what it returned

vars == <<heap, nodes, latest_state_owner, latest_state_readers,
          task_name_to_launch_ids, status, ret>>

-----------------------------------------------------------------------------
(* Bounds of the model.                                                    *)

\* The engine launches at most MaxLaunches tasks over its lifetime, so
\* nodes_.size() never exceeds MaxLaunches + 1.
MaxLaunches == 5

-----------------------------------------------------------------------------
(* Maps with operator[] / find / erase semantics (std::unordered_map).     *)

EmptyMap == [x \in {} |-> {}]
Get(m, s) == IF s \in DOMAIN m THEN m[s] ELSE {}
Put(m, s, v) == [x \in (DOMAIN m) \cup {s} |-> IF x = s THEN v ELSE m[x]]
Del(m, s) == [x \in (DOMAIN m) \ {s} |-> m[x]]
\* f itself, as an explicit function: TLC then evaluates f once, not at
\* every application.
Strict(f) == f @@ EmptyMap
Range(f) == {f[x] : x \in DOMAIN f}
Min(S) == CHOOSE x \in S : \A y \in S : x <= y
RECURSIVE SumOver(_, _)
SumOver(f, D) == IF D = {} THEN 0 ELSE LET x == CHOOSE y \in D : TRUE IN f[x] + SumOver(f, D \ {x})

-----------------------------------------------------------------------------
(* Addresses.                                                              *)

initial_node == 0
NullPtr == -1
TaskAddrs == 1..MaxLaunches
Addrs == {initial_node} \cup TaskAddrs
\* node_id of a node no reid_nodes() has reached yet
NoId == -1

-----------------------------------------------------------------------------
(* AsyncState, IR, kernels, records and task metadata.                     *)

St(sn, ty) == [snode |-> sn, type |-> ty]
Parent(sn) == IF sn = "S" THEN "P" ELSE "root"

StX == St("x", "value")
StM == St("S", "mask")
StLS == St("S", "list")
StLP == St("P", "list")

NullIR == [null |-> TRUE]
Body(clears, stmts) == [clears |-> clears, stmts |-> stmts]
IR(ty, sn, body) ==
  [task_type |-> ty, snode |-> sn, block_dim |-> 0,
   const_begin |-> FALSE, const_end |-> FALSE, begin_value |-> 0, end_value |-> 0,
   body |-> body]
BodyEmpty(ir) == ir.body.clears = {} /\ ~ir.body.stmts

Kernel(id, noargs, acc) == [id |-> id, args_rets_empty |-> noargs, is_accessor |-> acc]
K1 == Kernel("k1", TRUE, FALSE)

Rec(k, ir) == [kernel |-> k, ir |-> ir]
EmptyRec == [kernel |-> NullPtr, ir |-> NullIR]
RecEmpty(rec) == rec.ir = NullIR

Meta(nm, ty, sn, ins, outs) ==
  [name |-> nm, type |-> ty, snode |-> sn, input_states |-> ins, output_states |-> outs]
initial_meta == Meta("initial_state", "serial", "none", {}, {})

Task(nm, ty, sn, ins, outs, body) ==
  [rec |-> Rec(K1, IR(ty, sn, body)), meta |-> Meta(nm, ty, sn, ins, outs)]

\* The launches the engine submits.
\* serial: write field x
TaskWX == Task("wx", "serial", "none", {}, {StX}, Body({}, TRUE))
\* struct_for over S: read x, activate S
TaskSM == Task("sm", "struct_for", "S", {StX}, {StM}, Body({}, TRUE))
\* serial: read x and the mask of S
TaskRXM == Task("rxm", "serial", "none", {StX, StM}, {}, Body({}, TRUE))
\* serial: read the list of S, then clear it
TaskCL == Task("cl", "serial", "none", {StLS}, {StLS}, Body({"S"}, TRUE))
\* serial: nothing but the ClearListStmt of S
TaskCE == Task("ce", "serial", "none", {}, {StLS}, Body({"S"}, FALSE))
\* struct_for over S: read the list of S, write field x
TaskSF == Task("sf", "struct_for", "S", {StLS}, {StX}, Body({}, TRUE))
\* listgen of S
TaskLG == Task("lg", "listgen", "S", {StLP, StM}, {StLS}, Body({}, TRUE))

Tasks == {TaskWX, TaskSM, TaskRXM, TaskCL, TaskCE, TaskSF, TaskLG}

\* A kernel with arguments that is an snode accessor, and its launch:
\* serial, write field x
K2 == Kernel("k2", FALSE, TRUE)
TaskWA == [rec |-> Rec(K2, IR("serial", "none", Body({}, TRUE))),
           meta |-> Meta("wa", "serial", "none", {}, {StX})]

Names == {t.meta.name : t \in Tasks \cup {TaskWA}}

-----------------------------------------------------------------------------
(* Nodes and the heap.                                                     *)

Node(rec, meta, lid) ==
  [rec |-> rec, meta |-> meta, launch_id |-> lid, node_id |-> NoId,
   input_edges |-> EmptyMap, output_edges |-> EmptyMap]

\* Memory that holds no node anything refers to.
BlankNode == Node(EmptyRec, initial_meta, 0)

Live(ns) == Range(ns)

Targets(n) ==
  UNION {n.input_edges[s] : s \in DOMAIN n.input_edges}
    \cup UNION {n.output_edges[s] : s \in DOMAIN n.output_edges}

RECURSIVE ReachFrom(_, _)
ReachFrom(h, R) ==
  LET N == R \cup (UNION {Targets(h[a]) : a \in R} \cap Addrs)
  IN IF N = R THEN R ELSE ReachFrom(h, N)

\* The addresses some pointer of the graph leads to.
Referenced(h, ns, ow, rd) ==
  ReachFrom(h, Live(ns) \cup (Range(ow) \cap Addrs) \cup UNION Range(rd))

\* The heap between two calls.  The content of freed memory that nothing
\* points to cannot be observed.  Neither can the node_id of a live node:
\* every call that reads node_id runs reid_nodes() first, which rewrites it
\* for all live nodes; only a freed node keeps the node_id it had.
Canon(h, ns, ow, rd) ==
  LET R == Referenced(h, ns, ow, rd)
  IN [a \in Addrs |->
        IF a \notin R THEN BlankNode
        ELSE IF a \in Live(ns) THEN [h[a] EXCEPT !.node_id = NoId]
        ELSE h[a]]

\* An insert_state_flow that records the edge at its target only
AddInputEdges(h, E) ==
  [a \in Addrs |->
     LET ins == {e \in E : e[2] = a}
         ie == h[a].input_edges
     IN [h[a] EXCEPT
           !.input_edges =
              [s \in (DOMAIN ie) \cup {e[3] : e \in ins} |->
                 Get(ie, s) \cup {e[1] : e \in {x \in ins : x[3] = s}}]]]

\* insert_state_flow for a set of <<from, to, state>> edges.
AddEdges(h, E) ==
  [a \in Addrs |->
     LET outs == {e \in E : e[1] = a}
         ins == {e \in E : e[2] = a}
         oe == h[a].output_edges
         ie == h[a].input_edges
     IN [h[a] EXCEPT
           !.output_edges =
              [s \in (DOMAIN oe) \cup {e[3] : e \in outs} |->
                 Get(oe, s) \cup {e[2] : e \in {x \in outs : x[3] = s}}],
           !.input_edges =
              [s \in (DOMAIN ie) \cup {e[3] : e \in ins} |->
                 Get(ie, s) \cup {e[1] : e \in {x \in ins : x[3] = s}}]]]

-----------------------------------------------------------------------------
(* How a call ends.                                                        *)

\* The call returns r and leaves the graph (h, ns, ow, rd); when it
\* dereferenced a dangling pointer (ub) it may have crashed instead.
Commit(h, ns, ow, rd, r, ub) ==
  \/ /\ status' = "ok"
     /\ heap' = Canon(h, ns, ow, rd)
     /\ nodes' = ns
     /\ latest_state_owner' = ow
     /\ latest_state_readers' = rd
     /\ ret' = r
  \/ /\ ub
     /\ status' = "crashed"
     /\ ret' = [op |-> r.op]
     /\ UNCHANGED <<heap, nodes, latest_state_owner, latest_state_readers>>

\* A TI_ASSERT of the call failed.
Abort(op) ==
  /\ status' = "aborted"
  /\ ret' = [op |-> op]
  /\ UNCHANGED <<heap, nodes, latest_state_owner, latest_state_readers>>

-----------------------------------------------------------------------------
(* StateFlowGraph::StateFlowGraph                                          *)

Init ==
  /\ heap = [a \in Addrs |-> BlankNode]
  /\ nodes = <<initial_node>>
  /\ latest_state_owner = EmptyMap
  /\ latest_state_readers = EmptyMap
  /\ task_name_to_launch_ids = [nm \in Names |-> 0]
  /\ status = "ok"
  /\ ret = [op |-> "init"]

-----------------------------------------------------------------------------
(* StateFlowGraph::insert_task                                             *)

\* Where make_unique<Node>() may place the new node: memory nothing refers
\* to, or freed memory that dangling pointers still refer to.
AllocChoices ==
  LET free == TaskAddrs \ Live(nodes)
      ref == Referenced(heap, nodes, latest_state_owner, latest_state_readers)
      fresh == free \ ref
  IN (IF fresh = {} THEN {} ELSE {Min(fresh)}) \cup (free \cap ref)

\* A launch id that ignores the counter
FirstLaunchId(ids, nm) == 0

\* The launch id a new node of that name gets.
NewLaunchId(ids, nm) == ids[nm]
\* The counter after the launch.
BumpLaunchId(ids, nm) == [ids EXCEPT ![nm] = ids[nm] + 1]

\* An input loop that makes the initial node the owner of every state
OwnersReset(ow, meta) ==
  [s \in (DOMAIN ow) \cup meta.input_states |-> initial_node]

\* Owners as the input loop leaves them.
OwnersAfterInputs(ow, meta) ==
  [s \in (DOMAIN ow) \cup meta.input_states |->
     IF s \in DOMAIN ow THEN ow[s] ELSE initial_node]

\* The nodes an output state gets dependency edges from.
ReadersForOutput(rd, s) ==
  IF s \in DOMAIN rd THEN rd[s] ELSE {initial_node}

InsertEdges(ow1, rd, meta, addr) ==
  {<<ow1[s], addr, s>> : s \in meta.input_states}
    \cup UNION {{<<d, addr, s>> : d \in ReadersForOutput(rd, s)} : s \in meta.output_states}

InsertTask(t) ==
  /\ status = "ok"
  /\ SumOver(task_name_to_launch_ids, Names) < MaxLaunches
  /\ \E addr \in AllocChoices :
       LET meta == t.meta
           lid == NewLaunchId(task_name_to_launch_ids, meta.name)
           h0 == [heap EXCEPT ![addr] = Node(t.rec, meta, lid)]
           ow1 == OwnersAfterInputs(latest_state_owner, meta)
           E == InsertEdges(ow1, latest_state_readers, meta, addr)
           ow2 == [s \in (DOMAIN ow1) \cup meta.output_states |->
                     IF s \in meta.output_states THEN addr ELSE ow1[s]]
           rd2 == [s \in (DOMAIN latest_state_readers) \cup meta.output_states |->
                     IF s \in meta.output_states THEN {} ELSE latest_state_readers[s]]
           rd3 == [s \in (DOMAIN rd2) \cup meta.input_states |->
                     IF s \in meta.input_states THEN Get(rd2, s) \cup {addr} ELSE rd2[s]]
           froms == {e[1] : e \in E}
           ub == \E f \in froms : f \notin Live(nodes) \cup {addr, NullPtr}
       IN /\ task_name_to_launch_ids' = BumpLaunchId(task_name_to_launch_ids, meta.name)
          /\ IF NullPtr \in froms
             THEN Abort("insert_task")
             ELSE Commit(AddEdges(h0, E), Append(nodes, addr), ow2, rd3,
                         [op |-> "insert_task"], ub)

-----------------------------------------------------------------------------
(* StateFlowGraph::clear and StateFlowGraph::extract                       *)

\* A clear() that leaves the initial node its output edges
KeptHeap(h) == h

ClearedHeap(h) == [h EXCEPT ![initial_node].output_edges = EmptyMap]

Clear ==
  /\ status = "ok"
  /\ UNCHANGED task_name_to_launch_ids
  /\ Commit(ClearedHeap(heap), <<initial_node>>, EmptyMap, EmptyMap,
            [op |-> "clear"], FALSE)

Extract ==
  /\ status = "ok"
  /\ UNCHANGED task_name_to_launch_ids
  /\ Commit(ClearedHeap(heap), <<initial_node>>, EmptyMap, EmptyMap,
            [op |-> "extract",
             value |-> [i \in 1..(Len(nodes) - 1) |-> heap[nodes[i + 1]].rec]],
            FALSE)

-----------------------------------------------------------------------------
(* StateFlowGraph::reid_nodes                                              *)

\* 0-based position of a live node in nodes_.
IndexOf(ns, a) == (CHOOSE i \in 1..Len(ns) : ns[i] = a) - 1
NodeAt(ns, i) == ns[i + 1]
Indices(ns) == 0..(Len(ns) - 1)

reid_nodes(h, ns) ==
  [a \in Addrs |->
     IF a \in Live(ns) THEN [h[a] EXCEPT !.node_id = IndexOf(ns, a)] ELSE h[a]]

-----------------------------------------------------------------------------
(* Node::disconnect_with, Node::disconnect_all, delete_nodes               *)

disconnect_with(n, other) ==
  [n EXCEPT !.output_edges = [s \in DOMAIN @ |-> @[s] \ {other}],
            !.input_edges = [s \in DOMAIN @ |-> @[s] \ {other}]]

\* A disconnect_all that leaves the neighbours their pointers to the node
keep_connected(h, this) == h

disconnect_all(h, this) ==
  LET nb == Targets(h[this]) \cap Addrs
  IN [a \in Addrs |-> IF a \in nb THEN disconnect_with(h[a], this) ELSE h[a]]

RECURSIVE DisconnectEach(_, _)
DisconnectEach(h, doomed) ==
  IF doomed = {} THEN h
  ELSE LET d == Min(doomed)
       IN DisconnectEach(Strict(disconnect_all(h, d)), doomed \ {d})

\* The owners after the deleted nodes were redirected to the initial node.
RedirectOwners(ow, doomed) ==
  [s \in DOMAIN ow |-> IF ow[s] \in doomed THEN initial_node ELSE ow[s]]

\* delete_nodes(indices_to_delete) on the graph (h, ns, ow, rd); ub: a
\* neighbour list held a dangling pointer, or the node itself.
delete_nodes(h, ns, ow, rd, idx) ==
  LET doomed == {NodeAt(ns, i) : i \in idx}
      h1 == DisconnectEach(h, doomed)
      ns1 == SelectSeq(ns, LAMBDA a : a \notin doomed)
  IN [h |-> reid_nodes(h1, ns1),
      ns |-> ns1,
      ow |-> RedirectOwners(ow, doomed),
      rd |-> [s \in DOMAIN rd |-> rd[s] \ doomed],
      ub |-> \E d \in doomed : \E o \in Targets(h[d]) : o \notin Live(ns) \/ o = d]

-----------------------------------------------------------------------------
(* StateFlowGraph::replace_reference and optimize_listgen                  *)

\* replace_reference that erases a from its readers and inserts no b
replace_reference_erase_only(h, a, b) ==
  LET oe == h[a].output_edges
      seen == {<<s, c>> \in (DOMAIN oe) \X Addrs : c \in oe[s]}
  IN [x \in Addrs |->
        LET ie0 == h[x].input_edges
            ie1 == [s \in (DOMAIN ie0) \cup {p[1] : p \in {q \in seen : q[2] = x}} |->
                      IF <<s, x>> \in seen THEN Get(ie0, s) \ {a} ELSE Get(ie0, s)]
        IN [h[x] EXCEPT !.input_edges = ie1,
                        !.output_edges = IF x = a THEN EmptyMap ELSE @]]

\* replace_reference(node_a, node_b): the readers of a now read from b.
replace_reference(h, a, b) ==
  LET oe == h[a].output_edges
      \* <<state, c>>: c is looked up under that state
      seen == {<<s, c>> \in (DOMAIN oe) \X Addrs : c \in oe[s]}
      moved == {p \in seen : a \in Get(h[p[2]].input_edges, p[1])}
  IN [x \in Addrs |->
        LET ie0 == h[x].input_edges
            \* operator[] of the lookup creates the bucket
            ie1 == [s \in (DOMAIN ie0) \cup {p[1] : p \in {q \in seen : q[2] = x}} |->
                      IF <<s, x>> \in moved
                      THEN (Get(ie0, s) \ {a}) \cup {b}
                      ELSE Get(ie0, s)]
            oe0 == IF x = a THEN EmptyMap ELSE h[x].output_edges
            oe1 == IF x = b
                   THEN [s \in (DOMAIN oe0) \cup {p[1] : p \in moved} |->
                           Get(oe0, s) \cup {p[2] : p \in {q \in moved : q[1] = s}}]
                   ELSE oe0
        IN [h[x] EXCEPT !.input_edges = ie1, !.output_edges = oe1]]

mask_state(sn) == St(sn, "mask")
parent_list_state(sn) == St(Parent(sn), "list")

\* Two list generations of the same snode.
ListgenPair(h, ns, i, j) ==
  /\ i < j
  /\ h[NodeAt(ns, i)].meta.type = "listgen"
  /\ h[NodeAt(ns, j)].meta.type = "listgen"
  /\ h[NodeAt(ns, i)].meta.snode = h[NodeAt(ns, j)].meta.snode

\* The TI_ASSERTs the scan of the pair (i, j) reaches all hold.
ListgenAssertsHold(h, ns, i, j) ==
  LET na == h[NodeAt(ns, i)]
      nb == h[NodeAt(ns, j)]
      ma == Get(na.input_edges, mask_state(na.meta.snode))
      mb == Get(nb.input_edges, mask_state(na.meta.snode))
      pa == Get(na.input_edges, parent_list_state(na.meta.snode))
      pb == Get(nb.input_edges, parent_list_state(na.meta.snode))
  IN /\ Cardinality(ma) = 1 /\ Cardinality(mb) = 1
     /\ (ma = mb => Cardinality(pa) = 1 /\ Cardinality(pb) = 1)

\* The pair shares the mask and the parent list.
CommonPair(h, ns, i, j) ==
  LET na == h[NodeAt(ns, i)]
      nb == h[NodeAt(ns, j)]
  IN /\ ListgenPair(h, ns, i, j)
     /\ Get(na.input_edges, mask_state(na.meta.snode))
          = Get(nb.input_edges, mask_state(na.meta.snode))
     /\ Get(na.input_edges, parent_list_state(na.meta.snode))
          = Get(nb.input_edges, parent_list_state(na.meta.snode))

common_pairs(h, ns) ==
  {p \in Indices(ns) \X Indices(ns) : CommonPair(h, ns, p[1], p[2])}

\* The pairs are processed in the order of the scan: by i, then by j.
FirstPair(P) ==
  CHOOSE p \in P : \A q \in P : p[1] < q[1] \/ (p[1] = q[1] /\ p[2] <= q[2])

RECURSIVE ReplaceEach(_, _, _)
ReplaceEach(h, ns, P) ==
  IF P = {} THEN h
  ELSE LET p == FirstPair(P)
       IN ReplaceEach(Strict(replace_reference(h, NodeAt(ns, p[2]), NodeAt(ns, p[1]))),
                      ns, P \ {p})

RECURSIVE ReplaceUb(_, _, _)
ReplaceUb(h, ns, P) ==
  IF P = {} THEN FALSE
  ELSE LET p == FirstPair(P)
       IN \/ \E c \in Targets([h[NodeAt(ns, p[2])] EXCEPT !.input_edges = EmptyMap]) :
               c \notin Live(ns)
          \/ ReplaceUb(Strict(replace_reference(h, NodeAt(ns, p[2]), NodeAt(ns, p[1]))),
                       ns, P \ {p})

OptimizeListgen ==
  /\ status = "ok"
  /\ UNCHANGED task_name_to_launch_ids
  /\ IF \E i, j \in Indices(nodes) :
          ListgenPair(heap, nodes, i, j) /\ ~ListgenAssertsHold(heap, nodes, i, j)
     THEN Abort("optimize_listgen")
     ELSE LET P == common_pairs(heap, nodes)
              h1 == ReplaceEach(heap, nodes, P)
              d == delete_nodes(h1, nodes, latest_state_owner, latest_state_readers,
                                {p[2] : p \in P})
          IN Commit(d.h, d.ns, d.ow, d.rd,
                    [op |-> "optimize_listgen", value |-> P # {}],
                    d.ub \/ ReplaceUb(heap, nodes, P))

-----------------------------------------------------------------------------
(* StateFlowGraph::fuse                                                    *)

InTargets(n) == UNION {n.input_edges[s] : s \in DOMAIN n.input_edges}
OutTargets(n) == UNION {n.output_edges[s] : s \in DOMAIN n.output_edges}
\* edge->node_id for the edges of nodes_[i]
InIds(h, ns, i) == {h[e].node_id : e \in InTargets(h[NodeAt(ns, i)])}
OutIds(h, ns, i) == {h[e].node_id : e \in OutTargets(h[NodeAt(ns, i)])}

\* TI_ASSERT(edge->node_id < i) and TI_ASSERT(edge->node_id > i)
ClosureAssertsHold(h, ns) ==
  \A i \in Indices(ns) :
    /\ \A id \in InIds(h, ns, i) : id < i
    /\ \A id \in OutIds(h, ns, i) : id > i

\* A node_id that passes the assertion and indexes outside the n bitsets.
ClosureOutOfBounds(h, ns) ==
  \E i \in Indices(ns) :
    \/ \E id \in InIds(h, ns, i) : id < 0
    \/ \E id \in OutIds(h, ns, i) : id >= Len(ns)

\* Some edge of a live node is a dangling pointer.
DanglingEdge(h, ns) ==
  \E a \in Live(ns) : \E e \in Targets(h[a]) : e \notin Live(ns)

\* has_path[edge->node_id] |= has_path[i], for i = n - 1 down to 0
RECURSIVE HasPathDown(_, _, _, _)
HasPathDown(h, ns, i, hp) ==
  IF i < 0 THEN hp
  ELSE LET P == InIds(h, ns, i)
       IN HasPathDown(h, ns, i - 1,
                      [k \in DOMAIN hp |-> IF k \in P THEN hp[k] \cup hp[i] ELSE hp[k]])

\* has_path_reverse[edge->node_id] |= has_path_reverse[i], for i = 0 up to n - 1
RECURSIVE HasPathReverseUp(_, _, _, _)
HasPathReverseUp(h, ns, i, hpr) ==
  IF i >= Len(ns) THEN hpr
  ELSE LET P == OutIds(h, ns, i)
       IN HasPathReverseUp(h, ns, i + 1,
                           [k \in DOMAIN hpr |-> IF k \in P THEN hpr[k] \cup hpr[i] ELSE hpr[k]])

Diagonal(ns) == [i \in Indices(ns) |-> {i}]

\* fusable, for two non-empty records
TypeFusable(ri, rj) ==
  LET ti == ri.ir
      tj == rj.ir
      is_same_struct_for ==
        /\ ti.task_type = "struct_for" /\ tj.task_type = "struct_for"
        /\ ti.snode = tj.snode /\ ti.block_dim = tj.block_dim
      is_same_range_for ==
        /\ ti.task_type = "range_for" /\ tj.task_type = "range_for"
        /\ ti.const_begin /\ tj.const_begin /\ ti.const_end /\ tj.const_end
        /\ ti.begin_value = tj.begin_value /\ ti.end_value = tj.end_value
      are_both_serial == ti.task_type = "serial" /\ tj.task_type = "serial"
      same_kernel == ri.kernel = rj.kernel
      kernel_args_match ==
        same_kernel \/ (ri.kernel.args_rets_empty /\ rj.kernel.args_rets_empty)
      is_snode_accessor == ri.kernel.is_accessor \/ rj.kernel.is_accessor
  IN /\ (is_same_range_for \/ is_same_struct_for \/ are_both_serial)
     /\ kernel_args_match
     /\ ~is_snode_accessor

\* task_type_fusable, as the set of the pairs <<i, j>> whose bit is set
task_type_fusable(h, ns) ==
  {p \in (1..(Len(ns) - 1)) \X (1..(Len(ns) - 1)) :
     /\ p[1] < p[2]
     /\ ~RecEmpty(h[NodeAt(ns, p[1])].rec)
     /\ ~RecEmpty(h[NodeAt(ns, p[2])].rec)
     /\ TypeFusable(h[NodeAt(ns, p[1])].rec, h[NodeAt(ns, p[2])].rec)}

\* x.or_eq_get_update_list(y) of the bit set: x |= y; the value is the list
\* of the bits the assignment newly set in x.
or_eq_get_update_list(x, y) == y \ x

\* insert_edge_for_transitive_closure(a, b) on c = [hp, hpr]:
\* has_path[a] |= has_path[b]; for every bit i that set,
\* has_path_reverse[i] |= has_path_reverse[a]; for every bit j that set,
\* has_path[i][j] = true.
insert_edge_for_transitive_closure(c, a, b) ==
  LET update_list == or_eq_get_update_list(c.hp[a], c.hp[b])
      update_list_i(i) == or_eq_get_update_list(c.hpr[i], c.hpr[a])
  IN [hp |-> [i \in DOMAIN c.hp |->
                (IF i = a THEN c.hp[i] \cup c.hp[b] ELSE c.hp[i])
                  \cup (IF i \in update_list THEN update_list_i(i) ELSE {})],
      hpr |-> [i \in DOMAIN c.hpr |->
                 IF i \in update_list THEN c.hpr[i] \cup c.hpr[a] ELSE c.hpr[i]]]

\* The statements of task b moved into task a.
FusedIR(ira, irb) ==
  [ira EXCEPT !.body = Body(ira.body.clears \cup irb.body.clears,
                            ira.body.stmts \/ irb.body.stmts)]

\* "replace all edges to node B with new ones to node A", first loop
SpliceOutputs(h, A, B) ==
  LET bout == h[B].output_edges
  IN [x \in Addrs |->
        LET ie == h[x].input_edges
            hit == {s \in DOMAIN bout : x \in bout[s]}
        IN [h[x] EXCEPT !.input_edges =
              [s \in (DOMAIN ie) \cup hit |->
                 IF s \in hit THEN (Get(ie, s) \ {B}) \cup {A} ELSE ie[s]]]]

\* second loop
SpliceInputs(h, A, B) ==
  LET bin == h[B].input_edges
  IN [x \in Addrs |->
        LET oe == h[x].output_edges
            hit == {s \in DOMAIN bin : x \in bin[s]}
        IN [h[x] EXCEPT !.output_edges =
              [s \in (DOMAIN oe) \cup hit |->
                 IF s \in hit
                 THEN (Get(oe, s) \ {B}) \cup (IF x = A THEN {} ELSE {A})
                 ELSE oe[s]]]]

\* do_fuse(a, b) on the state f of the running fuse()
do_fuse(f, ns, a, b, phase) ==
  LET A == NodeAt(ns, a)
      B == NodeAt(ns, b)
      h0 == [f.h EXCEPT ![A].rec.ir = FusedIR(f.h[A].rec.ir, f.h[B].rec.ir),
                        ![B].rec.ir = NullIR]
      h1 == SpliceOutputs(h0, A, B)
      h2 == SpliceInputs(h1, A, B)
      already_had_a_to_b_edge == A \in InTargets(h1[B])
      c0 == [hp |-> f.hp, hpr |-> f.hpr]
      c1 == insert_edge_for_transitive_closure(c0, b, a)
      c2 == IF already_had_a_to_b_edge THEN c1
            ELSE insert_edge_for_transitive_closure(c1, a, b)
  IN [h |-> Strict(h2), hp |-> Strict(c2.hp), hpr |-> Strict(c2.hpr),
      fused |-> f.fused \cup {a, b},
      updated |-> TRUE,
      calls |-> Append(f.calls, [a |-> a, b |-> b, phase |-> phase,
                                 fused |-> f.fused,
                                 empty |-> {x \in {a, b} : RecEmpty(f.h[NodeAt(ns, x)].rec)},
                                 hp |-> Strict(c2.hp), hpr |-> Strict(c2.hpr)]),
      ub |-> f.ub \/ \E e \in Targets(f.h[B]) : e \notin Live(ns)]

\* An edge-directed phase that does not look at task_type_fusable
EdgeCandidatesOfAnyType(f, ns, fz, i) ==
  {j \in OutIds(f.h, ns, i) \cap Indices(ns) :
     /\ j \notin f.fused
     /\ (f.hp[i] \cap f.hpr[j]) \ {i, j} = {}}

\* The nodes the edge-directed phase may fuse nodes_[i] with: the first
\* edge, in the iteration order of the unordered containers, that passes.
EdgeCandidates(f, ns, fz, i) ==
  {j \in OutIds(f.h, ns, i) \cap Indices(ns) :
     /\ j \notin f.fused
     /\ <<i, j>> \in fz
     /\ (f.hp[i] \cap f.hpr[j]) \ {i, j} = {}}

RECURSIVE EdgePhase(_, _, _, _)
EdgePhase(f, ns, fz, i) ==
  IF i >= Len(ns) THEN {f}
  ELSE IF i \in f.fused THEN EdgePhase(f, ns, fz, i + 1)
  ELSE LET E == EdgeCandidates(f, ns, fz, i)
           f1 == [f EXCEPT !.ub = @ \/ \E e \in OutTargets(f.h[NodeAt(ns, i)]) :
                                          e \notin Live(ns)]
       IN IF E = {} THEN EdgePhase(f1, ns, fz, i + 1)
          ELSE UNION {EdgePhase(do_fuse(f1, ns, i, j, "edge"), ns, fz, i + 1) : j \in E}

\* The node the non-adjacent phase fuses nodes_[i] with, if any.
NonAdjacentCandidates(f, ns, fz, i) ==
  {j \in (i + 1)..(Len(ns) - 1) :
     /\ j \notin f.fused
     /\ <<i, j>> \in fz
     /\ j \notin f.hp[i]
     /\ i \notin f.hp[j]}

RECURSIVE NonAdjacentPhase(_, _, _, _)
NonAdjacentPhase(f, ns, fz, i) ==
  IF i >= Len(ns) THEN f
  ELSE IF i \in f.fused THEN NonAdjacentPhase(f, ns, fz, i + 1)
  ELSE LET J == NonAdjacentCandidates(f, ns, fz, i)
       IN IF J = {} THEN NonAdjacentPhase(f, ns, fz, i + 1)
          ELSE NonAdjacentPhase(do_fuse(f, ns, i, Min(J), "non_adjacent"), ns, fz, i + 1)

\* The rounds of fuse(), to the round that fuses nothing.
RECURSIVE FuseRounds(_, _, _)
FuseRounds(f, ns, fz) ==
  LET f0 == [f EXCEPT !.fused = {i \in 1..(Len(ns) - 1) : RecEmpty(f.h[NodeAt(ns, i)].rec)},
                      !.updated = FALSE]
      after == {NonAdjacentPhase(g, ns, fz, 1) : g \in EdgePhase(f0, ns, fz, 1)}
  IN UNION {IF g.updated THEN FuseRounds(g, ns, fz) ELSE {g} : g \in after}

\* A compaction that drops no node
KeepAll(h, ns) == ns

\* "Delete empty tasks"
Compact(h, ns) ==
  SelectSeq(ns, LAMBDA a : a = ns[1] \/ ~RecEmpty(h[a].rec))

\* The crash of a call that indexed outside an array.
Crash(op) ==
  /\ status' = "crashed"
  /\ ret' = [op |-> op]
  /\ UNCHANGED <<heap, nodes, latest_state_owner, latest_state_readers>>

Fuse ==
  /\ status = "ok"
  /\ UNCHANGED task_name_to_launch_ids
  /\ IF Len(nodes) <= 2
     THEN Commit(heap, nodes, latest_state_owner, latest_state_readers,
                 [op |-> "fuse", value |-> FALSE, calls |-> <<>>], FALSE)
     ELSE LET h0 == reid_nodes(heap, nodes)
              start == [h |-> h0,
                        hp |-> HasPathDown(h0, nodes, Len(nodes) - 1, Diagonal(nodes)),
                        hpr |-> HasPathReverseUp(h0, nodes, 0, Diagonal(nodes)),
                        fused |-> {}, updated |-> FALSE, calls |-> <<>>,
                        ub |-> DanglingEdge(h0, nodes)]
          IN IF ~ClosureAssertsHold(h0, nodes) THEN Abort("fuse")
             ELSE IF ClosureOutOfBounds(h0, nodes) THEN Crash("fuse")
             ELSE \E f \in FuseRounds(start, nodes, task_type_fusable(h0, nodes)) :
                    Commit(f.h,
                           IF f.calls # <<>> THEN Compact(f.h, nodes) ELSE nodes,
                           latest_state_owner, latest_state_readers,
                           [op |-> "fuse", value |-> f.calls # <<>>, calls |-> f.calls],
                           f.ub)

-----------------------------------------------------------------------------
(* StateFlowGraph::optimize_dead_store                                     *)

\* Node::has_state_flow(state, destination), for the node record from
has_state_flow(from, s, to) ==
  s \in from.meta.output_states /\ s \in to.meta.input_states

\* get_task_meta of a record whose ClearListStmt on snode sn was erased
MetaAfterClearListErased(meta, sn) ==
  [meta EXCEPT !.output_states = @ \ {St(sn, "list")}]

\* "s.type != list && latest_state_owner_[s] == task.get()": the store is
\* kept because it is the graph's latest view of s.
LatestOwnerGuard(s, ow, T) == s.type # "list" /\ ow[s] = T

\* A use test that finds no store used
StoreNeverUsed(h, task, succ, s) == FALSE

\* "used": some node of task->output_edges[s] reads s from the task; a
\* dependency edge does not count.
StoreUsed(h, task, succ, s) == \E other \in succ : has_state_flow(task, s, h[other])

\* One turn of the loop over task->meta->output_states, for nodes_[i] and
\* state s, on d = [h, ow, modified, ub].
DeadStoreState(d, ns, i, s) ==
  LET T == NodeAt(ns, i)
      task == d.h[T]
      succ == Get(task.output_edges, s)
      \* task->output_edges[s] creates the bucket
      h1 == [d.h EXCEPT ![T].output_edges = Put(task.output_edges, s, succ)]
      used == StoreUsed(d.h, task, succ, s)
      ub1 == d.ub \/ \E other \in succ : other \notin Live(ns)
      \* latest_state_owner_[s] creates the entry
      ow1 == IF s \in DOMAIN d.ow THEN d.ow ELSE Put(d.ow, s, NullPtr)
      erased ==
        [x \in Addrs |->
           IF x = T
           THEN [h1[x] EXCEPT
                   !.rec.ir.body.clears = @ \ {s.snode},
                   !.meta = MetaAfterClearListErased(@, s.snode),
                   !.output_edges = Del(@, s),
                   !.input_edges = IF T \in succ THEN Put(@, s, Get(@, s) \ {T}) ELSE @]
           ELSE IF x \in succ
           THEN [h1[x] EXCEPT !.input_edges = Put(@, s, Get(@, s) \ {T})]
           ELSE h1[x]]
  IN IF used THEN [d EXCEPT !.h = h1, !.ub = ub1]
     ELSE IF LatestOwnerGuard(s, ow1, T)
     THEN [d EXCEPT !.h = h1, !.ow = ow1, !.ub = ub1]
     ELSE LET d1 == [d EXCEPT !.h = h1, !.ub = ub1,
                              !.ow = IF s.type # "list" THEN ow1 ELSE @]
          IN IF /\ s.type = "list"
                /\ task.meta.type = "serial"
                /\ s.snode \in task.rec.ir.body.clears
             THEN [d1 EXCEPT !.h = Strict(erased), !.modified = TRUE]
             ELSE d1

RECURSIVE DeadStoreStates(_, _, _, _)
DeadStoreStates(d, ns, i, S) ==
  IF S = {} THEN d
  ELSE LET s == CHOOSE x \in S : TRUE
       IN DeadStoreStates(DeadStoreState(d, ns, i, s), ns, i, S \ {s})

\* The first loop of optimize_dead_store, from nodes_[i] on.
RECURSIVE DeadStoreSweep(_, _, _)
DeadStoreSweep(d, ns, i) ==
  IF i >= Len(ns) THEN d
  ELSE DeadStoreSweep(
         DeadStoreStates(d, ns, i, d.h[NodeAt(ns, i)].meta.output_states), ns, i + 1)

\* "erase empty blocks"
EmptyBlocks(h, ns) ==
  {i \in 1..(Len(ns) - 1) :
     /\ h[NodeAt(ns, i)].meta.type \in {"serial", "struct_for", "range_for"}
     /\ BodyEmpty(h[NodeAt(ns, i)].rec.ir)}

OptimizeDeadStore ==
  /\ status = "ok"
  /\ UNCHANGED task_name_to_launch_ids
  /\ LET d == DeadStoreSweep([h |-> heap, ow |-> latest_state_owner,
                              modified |-> FALSE, ub |-> FALSE], nodes, 1)
         to_delete == EmptyBlocks(d.h, nodes)
         r == delete_nodes(d.h, nodes, d.ow, latest_state_readers, to_delete)
     IN Commit(r.h, r.ns, r.ow, r.rd,
               [op |-> "optimize_dead_store", value |-> d.modified \/ to_delete # {}],
               d.ub \/ r.ub)

-----------------------------------------------------------------------------
(* StateFlowGraph::topo_sort_nodes                                         *)

RECURSIVE Orders(_)
Orders(Z) == IF Z = {} THEN {<<>>} ELSE UNION {{<<z>> \o o : o \in Orders(Z \ {z})} : z \in Z}

\* The number of output edges of node n whose target has node_id d.
EdgesTo(h, n, d) ==
  Cardinality({p \in (DOMAIN n.output_edges) \X Addrs :
                 p[2] \in n.output_edges[p[1]] /\ h[p[2]].node_id = d})

degrees_in(h, ns) ==
  [i \in Indices(ns) |->
     LET ie == h[NodeAt(ns, i)].input_edges
     IN SumOver([s \in DOMAIN ie |-> Cardinality(ie[s])], DOMAIN ie)]

\* Kahn's loop from the queue on; the results are the orders new_nodes can
\* end with, each with whether a TI_ASSERT failed on the way.
RECURSIVE Kahn(_, _, _, _, _)
Kahn(h, ns, deg, queue, new_nodes) ==
  IF queue = <<>>
  THEN {[abort |-> Len(new_nodes) # Len(ns), order |-> new_nodes]}
  ELSE LET head == Head(queue)
           n == h[head]
           deg1 == [d \in DOMAIN deg |-> deg[d] - EdgesTo(h, n, d)]
           zero == {d \in DOMAIN deg : deg1[d] = 0 /\ EdgesTo(h, n, d) > 0}
       IN IF \E d \in DOMAIN deg : deg1[d] < 0
          THEN {[abort |-> TRUE, order |-> new_nodes]}
          ELSE UNION {Kahn(h, ns, deg1,
                           Tail(queue) \o [k \in 1..Len(o) |-> NodeAt(ns, o[k])],
                           Append(new_nodes, head)) : o \in Orders(zero)}

TopoSortNodes ==
  /\ status = "ok"
  /\ UNCHANGED task_name_to_launch_ids
  /\ LET h0 == reid_nodes(heap, nodes)
     IN IF \E a \in Live(nodes) : \E e \in OutTargets(h0[a]) :
             h0[e].node_id \notin Indices(nodes)
        THEN Crash("topo_sort_nodes")
        ELSE \E k \in Kahn(h0, nodes, degrees_in(h0, nodes), <<NodeAt(nodes, 0)>>, <<>>) :
               IF k.abort THEN Abort("topo_sort_nodes")
               ELSE Commit(reid_nodes(h0, k.order), k.order,
                           latest_state_owner, latest_state_readers,
                           [op |-> "topo_sort_nodes"],
                           \E a \in Live(nodes) : \E e \in OutTargets(h0[a]) :
                              e \notin Live(nodes))

-----------------------------------------------------------------------------
(* Specifications.  Spec lets the engine call every public operation with  *)
(* every launch; the others restrict the launches and the calls to the     *)
(* part of the graph a property is about.                                  *)

Next ==
  \/ \E t \in Tasks : InsertTask(t)
  \/ Clear
  \/ Extract
  \/ OptimizeListgen
  \/ Fuse
  \/ OptimizeDeadStore
  \/ TopoSortNodes

Spec == Init /\ [][Next]_vars

\* Graphs built by insert_task alone.
NextInsert == \E t \in Tasks : InsertTask(t)
SpecInsert == Init /\ [][NextInsert]_vars

\* insert_task, clear and extract over the engine's lifetime.
LaunchTasks == {TaskWX, TaskSM, TaskCL}

NextLaunch ==
  \/ \E t \in LaunchTasks : InsertTask(t)
  \/ Clear
  \/ Extract
SpecLaunch == Init /\ [][NextLaunch]_vars

\* The launches of the fusion specifications.
FuseTasks == {TaskWX, TaskSM, TaskRXM, TaskCE}

\* insert_task and fuse in any order, and extract.
NextFuse ==
  \/ \E t \in FuseTasks : InsertTask(t)
  \/ Fuse
  \/ Extract
SpecFuse == Init /\ [][NextFuse]_vars

\* fuse() on graphs built by insert_task alone: after fuse() the engine
\* extracts.
NextBuildFuse ==
  \/ ret.op # "fuse" /\ \E t \in FuseTasks : InsertTask(t)
  \/ ret.op # "fuse" /\ Fuse
  \/ Extract
SpecBuildFuse == Init /\ [][NextBuildFuse]_vars

\* The launches of the list-generation specification.
ListgenTasks == {TaskLG, TaskSM, TaskSF, TaskCL}

\* insert_task and optimize_listgen in any order.
NextListgen ==
  \/ \E t \in ListgenTasks : InsertTask(t)
  \/ OptimizeListgen
SpecListgen == Init /\ [][NextListgen]_vars

\* The launches of the dead-store specification.
DeadStoreTasks == {TaskWX, TaskCL, TaskCE, TaskLG}

\* insert_task and optimize_dead_store in any order.
NextDeadStore ==
  \/ \E t \in DeadStoreTasks : InsertTask(t)
  \/ OptimizeDeadStore
SpecDeadStore == Init /\ [][NextDeadStore]_vars

\* The launches of the extraction specification.
ExtractTasks == {TaskWX, TaskCE, TaskLG}

\* insert_task, the three optimization passes, clear and extract.
NextExtract ==
  \/ \E t \in ExtractTasks : InsertTask(t)
  \/ OptimizeListgen
  \/ Fuse
  \/ OptimizeDeadStore
  \/ Clear
  \/ Extract
SpecExtract == Init /\ [][NextExtract]_vars

\* The launches of the sorting specification.
TopoTasks == {TaskWX, TaskSM, TaskRXM}

\* insert_task and topo_sort_nodes in any order.
NextTopo ==
  \/ \E t \in TopoTasks : InsertTask(t)
  \/ TopoSortNodes
SpecTopo == Init /\ [][NextTopo]_vars

\* The launches of the specification without fusion.
NoFuseTasks == {TaskLG, TaskSM, TaskSF, TaskCL}

\* Every operation that changes the graph, but fuse.
NextNoFuse ==
  \/ \E t \in NoFuseTasks : InsertTask(t)
  \/ OptimizeListgen
  \/ OptimizeDeadStore
  \/ Clear
  \/ Extract
SpecNoFuse == Init /\ [][NextNoFuse]_vars

\* The launches of the specification of the fused pairs: tasks of two
\* kernels, one of them an accessor.
AdmissibleTasks == {TaskWX, TaskRXM, TaskSM, TaskWA}

\* insert_task and fuse in any order, and extract.
NextAdmissible ==
  \/ \E t \in AdmissibleTasks : InsertTask(t)
  \/ Fuse
  \/ Extract
SpecAdmissible == Init /\ [][NextAdmissible]_vars

\* The launches of the deletion specification: a serial task that only
\* clears a list, a struct_for that reads the list, and a list generation.
DeleteTasks == {TaskCE, TaskSF, TaskLG}

\* insert_task, fuse, and the two passes that call delete_nodes.
NextDelete ==
  \/ \E t \in DeleteTasks : InsertTask(t)
  \/ Fuse
  \/ OptimizeListgen
  \/ OptimizeDeadStore
SpecDelete == Init /\ [][NextDelete]_vars

-----------------------------------------------------------------------------
(* Properties.                                                             *)

AllStates == UNION {t.meta.input_states \cup t.meta.output_states : t \in Tasks}

RECURSIVE Closure(_)
Closure(R) ==
  LET R2 == R \cup {<<pq[1][1], pq[2][2]>> : pq \in {x \in R \X R : x[1][2] = x[2][1]}}
  IN IF R2 = R THEN R ELSE Closure(R2)

\* The edges of the graph, by position in nodes_, as output_edges store them.
OutEdges(h, ns) ==
  {e \in Indices(ns) \X Indices(ns) : NodeAt(ns, e[2]) \in OutTargets(h[NodeAt(ns, e[1])])}

\* The node a node ended up in, by position at the start of fuse().
RECURSIVE RepIdx(_, _)
RepIdx(calls, i) ==
  IF \E k \in 1..Len(calls) : calls[k].b = i
  THEN RepIdx(calls, calls[CHOOSE k \in 1..Len(calls) : calls[k].b = i].a)
  ELSE i

DualConsistent ==
  \A from \in Live(nodes) : \A to \in Live(nodes) : \A s \in AllStates :
    to \in Get(heap[from].output_edges, s) <=> from \in Get(heap[to].input_edges, s)

\* C1: in every reachable state, for all nodes from, to in nodes_ and every
\* state s, to is in from.output_edges[s] iff from is in to.input_edges[s].
C1_DualEdgeConsistency == DualConsistent

\* After a do_fuse the surviving node has lost the dual of a spliced edge.
C1_FusedState ==
  /\ ret.op = "fuse" /\ status = "ok" /\ ret.value
  /\ ~DualConsistent

\* C2: after fuse() on a graph built by insert_task, if there was an edge
\* u -> v before the call, the surviving node that holds u is the one that
\* holds v or stands before it in nodes_.
C2_FusionKeepsTopologicalOrder ==
  [][(ret'.op = "fuse" /\ status' = "ok") =>
       \A e \in OutEdges(heap, nodes) :
         IndexOf(nodes', NodeAt(nodes, RepIdx(ret'.calls, e[1])))
           <= IndexOf(nodes', NodeAt(nodes, RepIdx(ret'.calls, e[2])))]_vars

\* The edges between the merged vertices after the first k do_fuse calls.
Quotient(E, calls, k) ==
  LET c == SubSeq(calls, 1, k)
  IN {q \in {<<RepIdx(c, e[1]), RepIdx(c, e[2])>> : e \in E} : q[1] # q[2]}

Acyclic(E) == \A e \in Closure(E) : e[1] # e[2]

\* C3: for a graph built by insert_task, after every do_fuse of fuse() the
\* graph with each fused pair merged into one vertex has no cycle (so no
\* pair is merged while a path through a third node joins it).
C3_FusionKeepsAcyclic ==
  [][(ret'.op = "fuse" /\ status' = "ok") =>
       \A k \in 0..Len(ret'.calls) :
         Acyclic(Quotient(OutEdges(heap, nodes), ret'.calls, k))]_vars

\* C4: in every reachable state every latest_state_owner[s] is a node of
\* nodes_.
C4_LatestOwnerInNodes ==
  \A s \in DOMAIN latest_state_owner : latest_state_owner[s] \in Live(nodes)

\* Two nodes of nodes_ with the same task name have different launch ids.
LaunchIdsDistinct(h, ns) ==
  \A a \in Live(ns) \ {initial_node} : \A b \in Live(ns) \ {initial_node, a} :
    h[a].meta.name = h[b].meta.name => h[a].launch_id # h[b].launch_id

\* C5: the k-th task inserted with a name gets launch_id k: insert_task
\* gives the new node the count of earlier launches of its name and adds one
\* to that count alone; clear() and extract() leave every count as it was;
\* so no two nodes of the same name share a launch id.
C5_LaunchIds ==
  [][
     /\ (ret'.op = "insert_task" /\ status' = "ok") =>
          LET new == heap'[nodes'[Len(nodes')]]
              nm == new.meta.name
          IN /\ new.launch_id = task_name_to_launch_ids[nm]
             /\ task_name_to_launch_ids' =
                  [task_name_to_launch_ids EXCEPT ![nm] = task_name_to_launch_ids[nm] + 1]
     /\ (ret'.op \in {"clear", "extract"}) =>
          task_name_to_launch_ids' = task_name_to_launch_ids
     /\ LaunchIdsDistinct(heap', nodes')
  ]_vars

\* A task is the only one in the graph and yet has launch id 2: the two
\* earlier launches of its name went away in a clear() or an extract().
C5_Witness ==
  /\ ret.op = "insert_task" /\ status = "ok"
  /\ Len(nodes) = 2
  /\ heap[nodes[2]].launch_id = 2

\* Two tasks conflict on a state both access and one of them writes.
Conflict(m1, m2) ==
  \E s \in AllStates :
    \/ s \in m1.output_states /\ s \in m2.input_states \cup m2.output_states
    \/ s \in m1.input_states /\ s \in m2.output_states

\* C6: in a graph built by insert_task alone, whenever a task inserted
\* before another conflicts with it on a state (read-after-write,
\* write-after-read or write-after-write), a path of edges leads from the
\* earlier node to the later one.
C6_HappensBefore ==
  \A i \in Indices(nodes) \ {0} : \A j \in Indices(nodes) :
    (i < j /\ Conflict(heap[NodeAt(nodes, i)].meta, heap[NodeAt(nodes, j)].meta))
      => <<i, j>> \in Closure(OutEdges(heap, nodes))

\* C7: fuse() returns a boolean in every reachable state: it neither trips
\* an assertion nor crashes.
C7_FuseNeverFails == ~(ret.op = "fuse" /\ status # "ok")

\* C8: when fuse() returned true, a fuse() called right after it returns
\* false.
C8_FuseIdempotent ==
  [][(ret.op = "fuse" /\ status = "ok" /\ ret.value /\ ret'.op = "fuse")
       => (status' = "ok" /\ ~ret'.value)]_vars

\* The redundant list generations: the later node of a pair of listgen
\* nodes of the same snode with the same mask and parent-list inputs.
Redundant(h, ns) ==
  {j \in Indices(ns) : \E i \in Indices(ns) : CommonPair(h, ns, i, j)}

\* The first list generation equal to nodes_[j].
FirstEqual(h, ns, j) == Min({i \in Indices(ns) : CommonPair(h, ns, i, j)})

\* No node of ns, owner or reader refers to a node of gone.
NoReference(h, ns, ow, rd, gone) ==
  /\ \A a \in Live(ns) : Targets(h[a]) \cap gone = {}
  /\ Range(ow) \cap gone = {}
  /\ \A s \in DOMAIN rd : rd[s] \cap gone = {}

\* What optimize_listgen does whichever node the readers end at.
ListgenFrame ==
  LET R == Redundant(heap, nodes)
      gone == {NodeAt(nodes, j) : j \in R}
  IN /\ ret'.value = (R # {})
     /\ Live(nodes') = Live(nodes) \ gone
     /\ NoReference(heap', nodes', latest_state_owner', latest_state_readers', gone)
     /\ R = {} => /\ heap' = heap
                  /\ nodes' = nodes
                  /\ latest_state_owner' = latest_state_owner
                  /\ latest_state_readers' = latest_state_readers

\* C9: on graphs built by insert_task and optimize_listgen, for
\* every pair i < j of equal list generations the call removes j, every
\* reader of j reads from i after it, nothing refers to j and the call
\* returns true; without such a pair it returns false and changes nothing.
C9_ReadersMoveToI ==
  [][(ret'.op = "optimize_listgen" /\ status' = "ok") =>
       /\ ListgenFrame
       /\ \A p \in Indices(nodes) \X Indices(nodes) :
            CommonPair(heap, nodes, p[1], p[2]) =>
              \A c \in Live(nodes') : \A s \in AllStates :
                NodeAt(nodes, p[2]) \in Get(heap[c].input_edges, s) =>
                  /\ NodeAt(nodes, p[1]) \in Get(heap'[c].input_edges, s)
                  /\ c \in Get(heap'[NodeAt(nodes, p[1])].output_edges, s)]_vars

\* C9, as the code has it: the readers of a removed list generation j
\* read, after the call, from the first list generation equal to j, which is the one of
\* its class the call keeps.
C9_ReadersMoveToFirst ==
  [][(ret'.op = "optimize_listgen" /\ status' = "ok") =>
       /\ ListgenFrame
       /\ \A j \in Redundant(heap, nodes) :
            LET first == NodeAt(nodes, FirstEqual(heap, nodes, j))
            IN /\ first \in Live(nodes')
               /\ \A c \in Live(nodes') : \A s \in AllStates :
                    NodeAt(nodes, j) \in Get(heap[c].input_edges, s) =>
                      /\ first \in Get(heap'[c].input_edges, s)
                      /\ c \in Get(heap'[first].output_edges, s)]_vars

\* The call removed the last writer of the list of S, and a task that read
\* that list from it now reads it from a list generation.
C9_Witness ==
  /\ ret.op = "optimize_listgen" /\ status = "ok" /\ ret.value
  /\ Get(latest_state_owner, StLS) = initial_node
  /\ \E c \in Get(latest_state_readers, StLS) \cap Live(nodes) :
       \E a \in Get(heap[c].input_edges, StLS) \cap Live(nodes) :
         /\ heap[a].meta.type = "listgen"
         /\ c \in Get(heap[a].output_edges, StLS)

\* No successor of node T on s reads s from it.
DeadStore(h, T, s) ==
  \A o \in Get(h[T].output_edges, s) : ~has_state_flow(h[T], s, h[o])

\* s is gone from the outputs of T and T from its successors' inputs on s.
StoreErased(h, T, s, succ) ==
  /\ s \notin DOMAIN h[T].output_edges
  /\ \A o \in succ : T \notin Get(h[o].input_edges, s)

\* C10: on graphs built by insert_task and optimize_dead_store,
\* for a non-initial node and an output state s of any kind with no
\* state-flow consumer of which the node is not the latest owner, the call
\* returns true and erases s from the node's output_edges and the node from
\* its successors' input_edges[s].
C10_DeadStoreErasedAnyKind ==
  [][(ret'.op = "optimize_dead_store" /\ status' = "ok") =>
       \A T \in Live(nodes) \ {initial_node} : \A s \in heap[T].meta.output_states :
         (DeadStore(heap, T, s) /\ Get(latest_state_owner, s) # T) =>
           /\ ret'.value
           /\ T \in Live(nodes') =>
                StoreErased(heap', T, s, Get(heap[T].output_edges, s) \cap Live(nodes'))]_vars

\* What lines 658-687 do erase: a store with no state-flow consumer that is
\* a list state of a serial task whose body holds the ClearListStmt of that
\* snode, whether or not the task is the latest owner.  The call returns
\* true, and the task either went away as an empty block or lost s from its
\* output_edges and its meta and stands in no successor's input_edges[s].
\* Every other output state of a task that stays keeps its edges.
DeadListStoreErased ==
  [][(ret'.op = "optimize_dead_store" /\ status' = "ok") =>
       \A T \in Live(nodes) \ {initial_node} : \A s \in heap[T].meta.output_states :
         LET succ == Get(heap[T].output_edges, s) \cap Live(nodes')
             erasable == /\ DeadStore(heap, T, s)
                         /\ s.type = "list"
                         /\ heap[T].meta.type = "serial"
                         /\ s.snode \in heap[T].rec.ir.body.clears
         IN /\ erasable => ret'.value
            /\ (erasable /\ T \in Live(nodes')) =>
                  /\ StoreErased(heap', T, s, succ)
                  /\ s \notin heap'[T].meta.output_states
            /\ (erasable /\ T \notin Live(nodes')) =>
                  /\ ~heap[T].rec.ir.body.stmts
                  /\ \A o \in Live(nodes') : T \notin Targets(heap'[o])
            /\ (~erasable /\ T \in Live(nodes')) =>
                  /\ Get(heap'[T].output_edges, s) = succ
                  /\ s \in heap'[T].meta.output_states
                  /\ \A o \in succ : T \in Get(heap'[o].input_edges, s)
                                         <=> T \in Get(heap[o].input_edges, s)]_vars

\* The call erased the list store of a serial task that stays, and the list
\* generation that followed it lost its dependency edge.
DeadListStoreErasedState ==
  /\ ret.op = "optimize_dead_store" /\ status = "ok" /\ ret.value
  /\ \E T \in Live(nodes) : \E o \in Live(nodes) :
       /\ heap[T].meta.name = "cl"
       /\ StLS \notin heap[T].meta.output_states
       /\ StLS \notin DOMAIN heap[T].output_edges
       /\ heap[o].meta.type = "listgen"
       /\ StLS \in DOMAIN heap[o].input_edges
       /\ heap[o].input_edges[StLS] = {}

\* The graph as the constructor leaves it, launch counters apart.
ResetState(h, ns, ow, rd) ==
  /\ ns = <<initial_node>>
  /\ h[initial_node].input_edges = EmptyMap
  /\ h[initial_node].output_edges = EmptyMap
  /\ ow = EmptyMap
  /\ rd = EmptyMap

\* C11: extract returns the records of nodes_[1..] in their order and
\* leaves the graph reset: nodes_ holds the initial node alone, which has no
\* edge, and latest_state_owner_ and latest_state_readers_ are empty; the
\* task inserted next gets all its edges from the initial node, one for
\* each of its input and output states, as in a new graph.
C11_ExtractResets ==
  [][
     /\ (ret'.op = "extract") =>
          /\ status' = "ok"
          /\ Len(ret'.value) = Len(nodes) - 1
          /\ \A i \in 1..(Len(nodes) - 1) : ret'.value[i] = heap[nodes[i + 1]].rec
          /\ ResetState(heap', nodes', latest_state_owner', latest_state_readers')
     /\ (ret.op = "extract" /\ ret'.op = "insert_task") =>
          /\ status' = "ok"
          /\ Len(nodes') = 2
          /\ LET new == nodes'[2]
                 m == heap'[new].meta
                 S == m.input_states \cup m.output_states
             IN /\ heap'[new].input_edges = [s \in S |-> {initial_node}]
                /\ heap'[new].output_edges = EmptyMap
                /\ heap'[initial_node].output_edges = [s \in S |-> {new}]
                /\ heap'[initial_node].input_edges = EmptyMap
  ]_vars

\* extract returned the records of a graph of two tasks or more.
C11_Witness ==
  /\ ret.op = "extract" /\ status = "ok"
  /\ Len(ret.value) >= 2
  /\ nodes = <<initial_node>>

\* The edges of the graph with their states, by position in nodes_.
StateEdges(h, ns) ==
  {e \in Indices(ns) \X Indices(ns) \X AllStates :
     NodeAt(ns, e[2]) \in Get(h[NodeAt(ns, e[1])].output_edges, e[3])}

\* The positions, at the start of fuse(), of the nodes that survive it.
Survivors(ns, calls) == {i \in Indices(ns) : RepIdx(calls, i) = i}

\* The position after compaction of the survivor at position i.
NewPos(ns, calls, i) == Cardinality({k \in Survivors(ns, calls) : k < i})

\* The quotient of the graph by the fusions: every node stands for its
\* survivor, at the survivor's position after compaction.
QuotientEdges(h, ns, calls) ==
  {q \in {<<NewPos(ns, calls, RepIdx(calls, e[1])),
            NewPos(ns, calls, RepIdx(calls, e[2])), e[3]>> : e \in StateEdges(h, ns)} :
     q[1] # q[2]}

\* The states of a fused record: those of all the tasks fused into it.
FusedMeta(h, ns, calls, i) ==
  LET parts == {j \in Indices(ns) : RepIdx(calls, j) = i}
  IN [h[NodeAt(ns, i)].meta EXCEPT
        !.input_states = UNION {h[NodeAt(ns, j)].meta.input_states : j \in parts},
        !.output_states = UNION {h[NodeAt(ns, j)].meta.output_states : j \in parts}]

\* The metas of the records extract returns after that fuse(), in order.
ExtractedMetas(h, ns, calls) ==
  LET S == Survivors(ns, calls) \ {0}
  IN [k \in 1..Cardinality(S) |->
        FusedMeta(h, ns, calls, CHOOSE i \in S : NewPos(ns, calls, i) = k)]

\* insert_task of the records k.. of metas into a graph whose nodes are
\* the positions; the value is the set of edges of the graph at the end.
RECURSIVE Reinsert(_, _, _, _, _)
Reinsert(metas, k, ow, rd, E) ==
  IF k > Len(metas) THEN E
  ELSE LET meta == metas[k]
           ow1 == OwnersAfterInputs(ow, meta)
           ow2 == [s \in (DOMAIN ow1) \cup meta.output_states |->
                     IF s \in meta.output_states THEN k ELSE ow1[s]]
           rd2 == [s \in (DOMAIN rd) \cup meta.output_states |->
                     IF s \in meta.output_states THEN {} ELSE rd[s]]
           rd3 == [s \in (DOMAIN rd2) \cup meta.input_states |->
                     IF s \in meta.input_states THEN Get(rd2, s) \cup {k} ELSE rd2[s]]
       IN Reinsert(metas, k + 1, ow2, rd3, E \cup InsertEdges(ow1, rd, meta, k))

C13_TopoSortSucceeds ==
  ret.op = "topo_sort_nodes" =>
    /\ status = "ok"
    /\ nodes[1] = initial_node
    /\ \A e \in OutEdges(heap, nodes) : e[1] < e[2]

\* C14: as long as fuse() is not called, every edge a node stores leads to
\* a node of nodes_ on the right side of it: the nodes of its input_edges
\* stand before it and the nodes of its output_edges after it.
C14_EdgesGoForward ==
  \A p \in Indices(nodes) :
    LET v == heap[NodeAt(nodes, p)]
    IN /\ \A u \in InTargets(v) : u \in Live(nodes) /\ IndexOf(nodes, u) < p
       /\ \A w \in OutTargets(v) : w \in Live(nodes) /\ IndexOf(nodes, w) > p

\* A pass removed a node and edges between tasks remain.
C14_Witness ==
  /\ ret.op \in {"optimize_listgen", "optimize_dead_store"} /\ status = "ok"
  /\ ret.value
  /\ \E e \in OutEdges(heap, nodes) : e[1] # 0

\* C15: insert_task gives every write a dependency.  For each output state
\* s of the new task, when no task read s since its last write (or ever)
\* the new node gets the edge from the initial node on s; so the new node
\* has an incoming edge on each of its output states.
C15_EveryWriteHasDependency ==
  [][(ret'.op = "insert_task" /\ status' = "ok") =>
       LET new == nodes'[Len(nodes')]
       IN \A s \in heap'[new].meta.output_states :
            /\ Get(latest_state_readers, s) = {} =>
                  /\ initial_node \in Get(heap'[new].input_edges, s)
                  /\ new \in Get(heap'[initial_node].output_edges, s)
            /\ Get(heap'[new].input_edges, s) # {}]_vars

\* The positions of the tasks that write s, and of those that read it.
WritersOf(h, ns, s) ==
  {i \in Indices(ns) \ {0} : s \in h[NodeAt(ns, i)].meta.output_states}
ReadersOf(h, ns, s) ==
  {i \in Indices(ns) \ {0} : s \in h[NodeAt(ns, i)].meta.input_states}
Max(S) == CHOOSE x \in S : \A y \in S : x >= y

\* C16: after insert_task calls alone, the latest owner of a state some
\* task wrote is the last task inserted that writes it, and its latest
\* readers are the tasks that read it and were inserted no earlier than
\* that writer (the writer among them when it reads the state); the owner
\* of a state that was read and never written is the initial node.
C16_OwnersAndReaders ==
  \A s \in AllStates :
    LET W == WritersOf(heap, nodes, s)
        R == ReadersOf(heap, nodes, s)
    IN /\ W # {} =>
            /\ s \in DOMAIN latest_state_owner
            /\ latest_state_owner[s] = NodeAt(nodes, Max(W))
            /\ Get(latest_state_readers, s) = {NodeAt(nodes, i) : i \in {r \in R : r >= Max(W)}}
       /\ (W = {} /\ R # {}) =>
            /\ s \in DOMAIN latest_state_owner
            /\ latest_state_owner[s] = initial_node
            /\ Get(latest_state_readers, s) = {NodeAt(nodes, i) : i \in R}

\* A task that reads and writes a state is its owner and one of its two
\* readers, and an earlier task wrote the state too.
C16_Witness ==
  \E s \in DOMAIN latest_state_owner :
    /\ latest_state_owner[s] # initial_node
    /\ latest_state_owner[s] \in Get(latest_state_readers, s)
    /\ Cardinality(Get(latest_state_readers, s)) = 2
    /\ Cardinality(WritersOf(heap, nodes, s)) >= 2

\* C17: no node of nodes_ stands in its own input_edges or output_edges.
C17_NoSelfLoops ==
  \A n \in Live(nodes) : n \notin Targets(heap[n])

\* Reachability (a node reaches itself) in the graph fuse() started with,
\* with an edge each way between the two nodes of each of the first k
\* do_fuse calls.
MergedReach(E, ns, calls, k) ==
  Closure(E \cup {<<i, i>> : i \in Indices(ns)}
            \cup {<<calls[c].a, calls[c].b>> : c \in 1..k}
            \cup {<<calls[c].b, calls[c].a>> : c \in 1..k})

\* C18: after every do_fuse(a, b) of fuse(), has_path[i][j] is set exactly
\* when node i reaches node j in the graph at the start of the call
\* extended with the edges a -> b and b -> a of the fusions so far, and
\* has_path_reverse[j][i] is set exactly when has_path[i][j] is.
C18_ClosureConsistent ==
  [][(ret'.op = "fuse" /\ status' = "ok") =>
       \A k \in 1..Len(ret'.calls) :
         LET R == MergedReach(OutEdges(heap, nodes), nodes, ret'.calls, k)
             c == ret'.calls[k]
         IN \A i \in Indices(nodes) : \A j \in Indices(nodes) :
              /\ j \in c.hp[i] <=> <<i, j>> \in R
              /\ i \in c.hpr[j] <=> j \in c.hp[i]]_vars

\* C19: every do_fuse(a, b) of fuse() has 0 < a < b, two records that are
\* not empty when it is called, a pair of task types that can be fused
\* (two struct_for of one snode and block_dim, two range_for of the same
\* constant bounds, or two serial tasks; of one kernel or of kernels
\* without arguments and return values; no accessor kernel), and neither
\* node was fused earlier in the round.
C19_FusesAdmissiblePairs ==
  [][(ret'.op = "fuse" /\ status' = "ok") =>
       \A k \in 1..Len(ret'.calls) :
         LET c == ret'.calls[k]
         IN /\ 0 < c.a /\ c.a < c.b /\ c.b < Len(nodes)
            /\ c.empty = {}
            /\ ~RecEmpty(heap[NodeAt(nodes, c.a)].rec)
            /\ ~RecEmpty(heap[NodeAt(nodes, c.b)].rec)
            /\ TypeFusable(heap[NodeAt(nodes, c.a)].rec, heap[NodeAt(nodes, c.b)].rec)
            /\ c.a \notin c.fused /\ c.b \notin c.fused]_vars

\* One fuse() fused a pair along an edge and a pair of unordered nodes,
\* and left a task of the accessor kernel alone.
C19_Witness ==
  /\ ret.op = "fuse" /\ status = "ok"
  /\ \E n \in Live(nodes) : heap[n].meta.name = "wa"
  /\ \E k \in 1..Len(ret.calls) : ret.calls[k].phase = "edge"
  /\ \E k \in 1..Len(ret.calls) : ret.calls[k].phase = "non_adjacent"

\* C20: when fuse() returns true, nodes_ is the initial node followed by
\* the nodes whose record is not empty, in the order they had, and is
\* shorter by the number of do_fuse calls; when it returns false, as it
\* does for every graph of at most one task, nodes_ and all the edge sets
\* are as before.
C20_Compaction ==
  [][(ret'.op = "fuse" /\ status' = "ok") =>
       /\ Len(nodes) <= 2 => ~ret'.value
       /\ ret'.value =>
            /\ nodes'[1] = initial_node
            /\ nodes' = SelectSeq(nodes, LAMBDA a : a = initial_node \/ ~RecEmpty(heap'[a].rec))
            /\ Len(nodes') = Len(nodes) - Len(ret'.calls)
            /\ Len(ret'.calls) > 0
       /\ ~ret'.value =>
            /\ nodes' = nodes
            /\ \A a \in Live(nodes) :
                 /\ heap'[a].input_edges = heap[a].input_edges
                 /\ heap'[a].output_edges = heap[a].output_edges]_vars

\* fuse() returned true after two do_fuse calls or more, and a task that
\* was not fused stands behind the survivors.
C20_Witness ==
  /\ ret.op = "fuse" /\ status = "ok" /\ ret.value
  /\ Len(ret.calls) >= 2
  /\ Len(nodes) >= 3

\* The graph after the first loop of optimize_dead_store, before the empty
\* blocks are deleted.
SweptHeap ==
  DeadStoreSweep([h |-> heap, ow |-> latest_state_owner,
                  modified |-> FALSE, ub |-> FALSE], nodes, 1)

\* The store of s by node T is live: a successor reads s from T, or s is
\* no list state and T is its latest owner.
LiveStore(T, s) ==
  \/ \E o \in Get(heap[T].output_edges, s) : has_state_flow(heap[T], s, heap[o])
  \/ s.type # "list" /\ Get(latest_state_owner, s) = T

\* C21: the first loop of optimize_dead_store erases no live store: for a
\* task and an output state s of it that a successor reads from it, or
\* that is no list state and has the task as latest owner, the loop leaves
\* the task its output_edges[s] and leaves the task in the input_edges[s]
\* of each of these successors.  A dependency edge is no use.
C21_LiveStoreKept ==
  LET d == SweptHeap
  IN \A T \in Live(nodes) \ {initial_node} : \A s \in heap[T].meta.output_states :
       LiveStore(T, s) =>
         /\ Get(d.h[T].output_edges, s) = Get(heap[T].output_edges, s)
         /\ s \in d.h[T].meta.output_states
         /\ \A o \in Get(heap[T].output_edges, s) :
              T \in Get(d.h[o].input_edges, s) <=> T \in Get(heap[o].input_edges, s)

\* The loop is about to erase a dead store while another task holds a list
\* store that a successor reads.
C21_Witness ==
  /\ status = "ok"
  /\ SweptHeap.modified
  /\ \E T \in Live(nodes) \ {initial_node} :
       /\ StLS \in heap[T].meta.output_states
       /\ heap[T].meta.type = "serial"
       /\ \E o \in Get(heap[T].output_edges, StLS) : has_state_flow(heap[T], StLS, heap[o])

\* The calls of delete_nodes the present graph can see: the graph and the
\* indices that optimize_dead_store and optimize_listgen hand over.
DeleteNodesCalls ==
  LET d == SweptHeap
      P == common_pairs(heap, nodes)
  IN {[h |-> d.h, ow |-> d.ow, idx |-> EmptyBlocks(d.h, nodes)]}
       \cup (IF \A i, j \in Indices(nodes) :
                  ListgenPair(heap, nodes, i, j) => ListgenAssertsHold(heap, nodes, i, j)
             THEN {[h |-> ReplaceEach(heap, nodes, P), ow |-> latest_state_owner,
                    idx |-> {p[2] : p \in P}]}
             ELSE {})

\* What delete_nodes(c.idx) leaves of the graph (c.h, nodes, c.ow, readers).
DeleteNodesPost(c) ==
  LET r == delete_nodes(c.h, nodes, c.ow, latest_state_readers, c.idx)
      doomed == {NodeAt(nodes, i) : i \in c.idx}
  IN /\ Live(r.ns) = Live(nodes) \ doomed
     /\ Len(r.ns) = Len(nodes) - Cardinality(c.idx)
     /\ \A i, j \in 1..Len(r.ns) :
          i < j => IndexOf(nodes, r.ns[i]) < IndexOf(nodes, r.ns[j])
     /\ \A a \in Live(r.ns) : Targets(r.h[a]) \cap doomed = {}
     /\ \A s \in DOMAIN c.ow : c.ow[s] \in doomed => r.ow[s] = initial_node
     /\ \A s \in DOMAIN r.rd : r.rd[s] \cap doomed = {}
     /\ \A i \in Indices(r.ns) : r.h[NodeAt(r.ns, i)].node_id = i

\* C22: delete_nodes removes every trace of the deleted nodes: after
\* delete_nodes(indices) nodes holds the previous nodes that are not at
\* these indices, in their previous order; no remaining node has a deleted
\* node in an input_edges or output_edges bucket; every latest_state_owner
\* entry that pointed to a deleted node points to the initial node; no
\* latest_state_readers set holds a deleted node; and node_id is the
\* position of every node.
C22_DeleteNodes ==
  status = "ok" => \A c \in DeleteNodesCalls : DeleteNodesPost(c)

\* delete_nodes is about to delete a node that has neighbours, that is a
\* latest owner and a latest reader, and that is not the last of nodes.
C22_Witness ==
  /\ status = "ok"
  /\ \E c \in DeleteNodesCalls : \E i \in c.idx :
       LET n == NodeAt(nodes, i)
       IN /\ i < Len(nodes) - 1
          /\ Targets(c.h[n]) \ {initial_node} # {}
          /\ \E s \in DOMAIN c.ow : c.ow[s] = n
          /\ \E s \in DOMAIN latest_state_readers : n \in latest_state_readers[s]

\* C23: no dangling reference after fusion: when fuse() has returned, every
\* node in an input_edges or output_edges bucket of a node of nodes, and
\* every node in a latest_state_readers set, is itself in nodes (so that
\* the next insert_task wires no edge from a node that fusion removed).
C23_NoDanglingAfterFuse ==
  ret.op = "fuse" /\ status = "ok" =>
    /\ \A a \in Live(nodes) : Targets(heap[a]) \subseteq Live(nodes)
    /\ \A s \in DOMAIN latest_state_readers : latest_state_readers[s] \subseteq Live(nodes)

\* fuse() has returned after it fused a pair and removed a node, and a
\* latest_state_readers set is not empty.
C23_Witness ==
  /\ ret.op = "fuse" /\ status = "ok" /\ ret.value
  /\ Len(ret.calls) >= 1
  /\ \E s \in DOMAIN latest_state_readers : latest_state_readers[s] # {}

====
